---------------------------- MODULE Spec2Model ----------------------------
(***************************************************************************)
(* Solana USDC listener: the serverless function                           *)
(* (supabase/functions/solana-transaction-handler/index.ts, "edge") and    *)
(* the Express server (src/index.ts of the repository, "express").         *)
(*                                                                         *)
(* A request is handled in atomic steps separated by the awaits on I/O:    *)
(*   Receive       routing, body parsing, signature selection, up to the   *)
(*                 call of getParsedTransaction                            *)
(*   LedgerReturn  getParsedTransaction resolves (or rejects); extraction; *)
(*                 up to the call of upsert, or the response               *)
(*   UpsertReturn  the upsert resolves; the response                       *)
(* Several requests are in flight at once and interleave at these points.  *)
(***************************************************************************)
EXTENDS Integers, Sequences, FiniteSets, TLC

(***************************************************************************)
(* Bounds of the model.                                                    *)
(***************************************************************************)
\* number of requests the process receives in one behaviour
NReq == 2

(***************************************************************************)
(* Strings that the code inspects character by character are sequences of  *)
(* one-character strings; identifiers that are only compared are strings.  *)
(***************************************************************************)
DigitChars == <<"0", "1", "2", "3", "4", "5", "6", "7", "8", "9">>

IsDigit(c) == \E i \in 1..10 : DigitChars[i] = c

DigitVal(c) == (CHOOSE i \in 1..10 : DigitChars[i] = c) - 1

\* String.prototype.toUpperCase on the letters the model uses
UpperChar(c) ==
    CASE c = "s" -> "S"
      [] c = "o" -> "O"
      [] c = "l" -> "L"
      [] c = "m" -> "M"
      [] OTHER -> c

toUpperCase(s) == [i \in 1..Len(s) |-> UpperChar(s[i])]

(***************************************************************************)
(* Natural numbers of any size, for the 53-bit significands of JavaScript  *)
(* numbers: a sequence of limbs in base 2^15, the lowest limb first, with  *)
(* no zero limb at the top (<<>> is 0).                                    *)
(***************************************************************************)
Base == 2 ^ 15

Min(a, b) == IF a <= b THEN a ELSE b

Limb(a, i) == IF i <= Len(a) THEN a[i] ELSE 0

RECURSIVE BTrim(_)
BTrim(a) ==
    IF a # <<>> /\ a[Len(a)] = 0 THEN BTrim(SubSeq(a, 1, Len(a) - 1)) ELSE a

RECURSIVE BFromInt(_)
BFromInt(n) == IF n = 0 THEN <<>> ELSE <<n % Base>> \o BFromInt(n \div Base)

RECURSIVE BAddFrom(_, _, _, _)
BAddFrom(a, b, i, carry) ==
    IF i > Len(a) /\ i > Len(b)
    THEN IF carry = 0 THEN <<>> ELSE <<carry>>
    ELSE LET t == Limb(a, i) + Limb(b, i) + carry
         IN  <<t % Base>> \o BAddFrom(a, b, i + 1, t \div Base)

BAdd(a, b) == BAddFrom(a, b, 1, 0)

RECURSIVE BSubFrom(_, _, _, _)
BSubFrom(a, b, i, borrow) ==
    IF i > Len(a) THEN <<>>
    ELSE LET t == a[i] - Limb(b, i) - borrow
         IN  IF t < 0 THEN <<t + Base>> \o BSubFrom(a, b, i + 1, 1)
             ELSE <<t>> \o BSubFrom(a, b, i + 1, 0)

\* a - b, for a >= b
BSub(a, b) == BTrim(BSubFrom(a, b, 1, 0))

RECURSIVE BCmpFrom(_, _, _)
BCmpFrom(a, b, i) ==
    IF i = 0 THEN 0
    ELSE IF a[i] < b[i] THEN 0 - 1
    ELSE IF a[i] > b[i] THEN 1
    ELSE BCmpFrom(a, b, i - 1)

\* -1, 0 or 1 as a < b, a = b or a > b
BCmp(a, b) ==
    IF Len(a) < Len(b) THEN 0 - 1
    ELSE IF Len(a) > Len(b) THEN 1
    ELSE BCmpFrom(a, b, Len(a))

RECURSIVE BMulFrom(_, _, _, _)
BMulFrom(a, d, i, carry) ==
    IF i > Len(a) THEN IF carry = 0 THEN <<>> ELSE <<carry>>
    ELSE LET t == a[i] * d + carry
         IN  <<t % Base>> \o BMulFrom(a, d, i + 1, t \div Base)

\* a * d, for d <= Base
BMulSmall(a, d) == BMulFrom(a, d, 1, 0)

RECURSIVE BDivFrom(_, _, _, _)
BDivFrom(a, d, i, rem) ==
    IF i = 0 THEN << <<>>, rem >>
    ELSE LET cur  == rem * Base + a[i]
             rest == BDivFrom(a, d, i - 1, cur % d)
         IN  <<Append(rest[1], cur \div d), rest[2]>>

\* <<a \div d, a % d>>, for d <= Base
BDivSmall(a, d) ==
    LET r == BDivFrom(a, d, Len(a), 0) IN <<BTrim(r[1]), r[2]>>

\* a * 2^k
BShl(a, k) ==
    IF a = <<>> THEN <<>>
    ELSE [i \in 1..(k \div 15) |-> 0] \o BMulSmall(a, 2 ^ (k % 15))

\* <<a \div 2^k, whether a % 2^k is not 0>>
BShr(a, k) ==
    LET w    == Min(k \div 15, Len(a))
        high == BDivSmall(SubSeq(a, w + 1, Len(a)), 2 ^ (k % 15))
    IN  <<high[1], high[2] # 0 \/ \E i \in 1..w : a[i] # 0>>

RECURSIVE IntBitLen(_)
IntBitLen(n) == IF n = 0 THEN 0 ELSE 1 + IntBitLen(n \div 2)

\* the number of bits of a
BitLen(a) ==
    IF a = <<>> THEN 0 ELSE 15 * (Len(a) - 1) + IntBitLen(a[Len(a)])

(***************************************************************************)
(* Numbers.  A JavaScript number is an IEEE 754 binary64 value: NaN, or    *)
(* (-1)^neg * m * 2^e with m below 2^53, kept here with m odd (or m = 0,   *)
(* e = 0 for zero), so that equal values are equal records.  The results   *)
(* of parseFloat, of - and of / are the exact results rounded to 53 bits,  *)
(* round-half-to-even.  Infinities, subnormals and the sign of zero are    *)
(* outside the model: no amount of the model is that large or that small,  *)
(* and JSON writes -0 as 0.                                                *)
(***************************************************************************)
NaN == [nan |-> TRUE, neg |-> FALSE, m |-> <<>>, e |-> 0]

Zero == [nan |-> FALSE, neg |-> FALSE, m |-> <<>>, e |-> 0]

IsNaN(a) == a.nan

\* m * 2^e with the factors of two moved from m to e
RECURSIVE Canonical(_, _, _)
Canonical(neg, m, e) ==
    IF m = <<>> THEN Zero
    ELSE IF m[1] = 0 THEN Canonical(neg, Tail(m), e + 15)
    ELSE IF m[1] % 2 = 0 THEN Canonical(neg, BShr(m, 1)[1], e + 1)
    ELSE [nan |-> FALSE, neg |-> neg, m |-> m, e |-> e]

\* the binary64 value nearest to (-1)^neg * (m * 2^e + t), where t = 0, or
\* 0 < t < 2^e when sticky; ties go to the even significand
RoundToDouble(neg, m, e, sticky) ==
    IF BitLen(m) <= 53 THEN Canonical(neg, m, e)
    ELSE LET shift == BitLen(m) - 53
             top   == BShr(m, shift - 1)
             q     == BShr(top[1], 1)
             up    == q[2] /\ (top[2] \/ sticky \/ q[1][1] % 2 = 1)
         IN  Canonical(neg, IF up THEN BAdd(q[1], <<1>>) ELSE q[1], e + shift)

\* <<m \div 10^f, whether m % 10^f is not 0>>
RECURSIVE DivPow10(_, _, _)
DivPow10(m, f, sticky) ==
    IF f = 0 THEN <<m, sticky>>
    ELSE LET d == BDivSmall(m, 10)
         IN  DivPow10(d[1], f - 1, sticky \/ d[2] # 0)

\* the binary64 value nearest to (-1)^neg * n / 10^f, for an integer
\* 0 <= n < 2^31 and f <= 9: the quotient n * 2^90 / 10^f has more than 53
\* bits before it is rounded
DecimalToDouble(neg, n, f) ==
    LET q == DivPow10(BShl(BFromInt(n), 90), f, FALSE)
    IN  IF n = 0 THEN Zero ELSE RoundToDouble(neg, q[1], 0 - 90, q[2])

\* a - b of binary64 values
Subtract(a, b) ==
    IF IsNaN(a) \/ IsNaN(b) THEN NaN
    ELSE IF b.m = <<>> THEN a
    ELSE IF a.m = <<>> THEN [b EXCEPT !.neg = ~b.neg]
    ELSE LET e0 == Min(a.e, b.e)
             x  == BShl(a.m, a.e - e0)
             y  == BShl(b.m, b.e - e0)
         IN  IF a.neg # b.neg THEN RoundToDouble(a.neg, BAdd(x, y), e0, FALSE)
             ELSE IF BCmp(x, y) >= 0
             THEN RoundToDouble(a.neg, BSub(x, y), e0, FALSE)
             ELSE RoundToDouble(~a.neg, BSub(y, x), e0, FALSE)

LAMPORTS_PER_SOL == 1000000000

(***************************************************************************)
(* parseFloat: an optional sign, then the longest prefix that is a decimal *)
(* literal (digits, optionally a point and digits); NaN when that prefix   *)
(* holds no digit; the value is the binary64 value nearest to the decimal  *)
(* written.  Exponents and "Infinity" are outside the alphabet of the      *)
(* model, and its literals have at most nine digits.                       *)
(***************************************************************************)
RECURSIVE DigitRunEnd(_, _)
\* the index after the run of digits of s that starts at i
DigitRunEnd(s, i) ==
    IF i <= Len(s) /\ IsDigit(s[i]) THEN DigitRunEnd(s, i + 1) ELSE i

RECURSIVE DigitsValue(_, _, _)
\* the number written by the digits s[i..j-1]
DigitsValue(s, i, j) ==
    IF i >= j THEN 0 ELSE DigitsValue(s, i, j - 1) * 10 + DigitVal(s[j - 1])

RECURSIVE Pow10(_)
Pow10(k) == IF k = 0 THEN 1 ELSE 10 * Pow10(k - 1)

\* the value of the string s as parseFloat reads it
StringToNumber(s) ==
    LET neg     == Len(s) >= 1 /\ s[1] = "-"
        signed  == Len(s) >= 1 /\ (s[1] = "-" \/ s[1] = "+")
        i0      == IF signed THEN 2 ELSE 1
        intEnd  == DigitRunEnd(s, i0)
        hasPt   == intEnd <= Len(s) /\ s[intEnd] = "."
        fracEnd == IF hasPt THEN DigitRunEnd(s, intEnd + 1) ELSE intEnd
        nInt    == intEnd - i0
        nFrac   == IF hasPt THEN fracEnd - (intEnd + 1) ELSE 0
        mag     == DigitsValue(s, i0, intEnd) * Pow10(nFrac)
                     + (IF hasPt THEN DigitsValue(s, intEnd + 1, fracEnd) ELSE 0)
    IN  IF nInt + nFrac = 0 THEN NaN
        ELSE DecimalToDouble(neg, mag, nFrac)

(***************************************************************************)
(* The amount strings and lamport balances of the ledger records of the    *)
(* model, with their values and the differences of their values computed   *)
(* once; on any other argument the operations are computed as above.       *)
(***************************************************************************)
AmountStrings ==
    {<<"5">>, <<"7">>, <<"1", "0">>, <<"1", "0", ".", "0", "1">>,
     <<"1", ".", "5">>, <<"x">>}

LamportAmounts ==
    {0, 400000000, 500000000, 1000000000, 1500000000, 2000000000}

ParsedAmounts == [s \in AmountStrings |-> StringToNumber(s)]

SolAmounts == [n \in LamportAmounts |-> DecimalToDouble(FALSE, n, 9)]

KnownNumbers ==
    {ParsedAmounts[s] : s \in AmountStrings}
        \cup {SolAmounts[n] : n \in LamportAmounts} \cup {Zero, NaN}

Differences == [p \in KnownNumbers \X KnownNumbers |-> Subtract(p[1], p[2])]

\* parseFloat(s)
parseFloat(s) ==
    IF s \in AmountStrings THEN ParsedAmounts[s] ELSE StringToNumber(s)

\* the JavaScript expression a - b
FSub(a, b) ==
    IF <<a, b>> \in KnownNumbers \X KnownNumbers THEN Differences[<<a, b>>]
    ELSE Subtract(a, b)

\* the JavaScript expression lamports / LAMPORTS_PER_SOL, lamports an
\* integer below 2^31; LAMPORTS_PER_SOL is 10^9
LamportsToSol(lamports) ==
    IF lamports \in LamportAmounts THEN SolAmounts[lamports]
    ELSE DecimalToDouble(FALSE, lamports, 9)

(***************************************************************************)
(* new Date(blockTime * 1000).toISOString(): the UTC calendar instant of   *)
(* an epoch time in seconds, as <<year, month, day, hour, minute, second>> *)
(* (the milliseconds are always 000).  <<>> stands for null.               *)
(***************************************************************************)
NullTimestamp == <<>>

toISOString(secs) ==
    LET days == secs \div 86400
        rem  == secs % 86400
        z    == days + 719468
        era  == z \div 146097
        doe  == z - era * 146097
        yoe  == (doe - doe \div 1460 + doe \div 36524 - doe \div 146096) \div 365
        doy  == doe - (365 * yoe + yoe \div 4 - yoe \div 100)
        mp   == (5 * doy + 2) \div 153
        d    == doy - (153 * mp + 2) \div 5 + 1
        m    == IF mp < 10 THEN mp + 3 ELSE mp - 9
        y    == yoe + era * 400 + (IF m <= 2 THEN 1 ELSE 0)
    IN  <<y, m, d, rem \div 3600, (rem % 3600) \div 60, rem % 60>>

\* tx.blockTime ? new Date(tx.blockTime * 1000).toISOString() : null
\* (blockTime 0 stands for null, undefined and 0: all are falsy)
timestampOf(blockTime) ==
    IF blockTime # 0 THEN toISOString(blockTime) ELSE NullTimestamp


(***************************************************************************)
(* Process configuration, the store, and the requests.                     *)
(***************************************************************************)
VARIABLES
    variant,         \* "edge": the serverless function; "express": the server
    USDC_MINT,       \* env USDC_MINT as a sequence of characters; <<>> unset
    SOLANA_ADDR,     \* env SOLANA_ADDR; "" unset
    supabaseClient,  \* TRUE iff createClient ran (URL and service key set)
    store,           \* table solana_transactions: a set of rows
    lastUpsert,      \* history: per signature, the row of its last
                     \* successful upsert ({} when there was none)
    requests         \* per request: its position and what it has seen

vars == <<variant, USDC_MINT, SOLANA_ADDR, supabaseClient, store, lastUpsert,
          requests>>

Req == 1..NReq

Signatures == {"S1", "S2"}

WatchedAddr == "ADDR"

OtherAddr == "OTHER"

TokenMint == <<"m">>

OtherMint == <<"o">>

(***************************************************************************)
(* ParsedTransactionWithMeta | null, as getParsedTransaction returns it.   *)
(* A token balance is [mint, owner, uiAmountString]; an absent or empty    *)
(* uiAmountString is <<>>.  hasPre/PostTokenBalances is FALSE when the     *)
(* optional list is absent.                                                *)
(***************************************************************************)
TokenBalance(mint, owner, amount) ==
    [mint |-> mint, owner |-> owner, uiAmountString |-> amount]

ParsedTx(meta, keys, preB, postB, hasPre, preT, hasPost, postT, time) ==
    [isNull |-> FALSE, hasMeta |-> meta, accountKeys |-> keys,
     preBalances |-> preB, postBalances |-> postB,
     hasPreTokenBalances |-> hasPre, preTokenBalances |-> preT,
     hasPostTokenBalances |-> hasPost, postTokenBalances |-> postT,
     blockTime |-> time]

NullTx ==
    [isNull |-> TRUE, hasMeta |-> FALSE, accountKeys |-> <<>>,
     preBalances |-> <<>>, postBalances |-> <<>>,
     hasPreTokenBalances |-> FALSE, preTokenBalances |-> <<>>,
     hasPostTokenBalances |-> FALSE, postTokenBalances |-> <<>>,
     blockTime |-> 0]

(***************************************************************************)
(* TransactionResult | null.                                               *)
(***************************************************************************)
NullResult ==
    [isNull |-> TRUE, signature |-> "", preAmount |-> Zero,
     postAmount |-> Zero, uiAmount |-> Zero, timestamp |-> NullTimestamp]

\* mutant: the operands of the subtraction swapped
TransactionResultSwapped(signature, preAmount, postAmount, blockTime) ==
    [isNull |-> FALSE, signature |-> signature, preAmount |-> preAmount,
     postAmount |-> postAmount, uiAmount |-> FSub(preAmount, postAmount),
     timestamp |-> timestampOf(blockTime)]

\* const uiAmount = postAmount - preAmount; return {signature, ...}
TransactionResult(signature, preAmount, postAmount, blockTime) ==
    [isNull |-> FALSE, signature |-> signature, preAmount |-> preAmount,
     postAmount |-> postAmount, uiAmount |-> FSub(postAmount, preAmount),
     timestamp |-> timestampOf(blockTime)]

\* mutant: the owner of the entry not compared
findTokenBalanceByMint(list, mint, owner) ==
    LET hits == {i \in 1..Len(list) : list[i].mint = mint}
    IN  IF hits = {} THEN 0 ELSE CHOOSE i \in hits : \A j \in hits : i <= j

\* Array.prototype.find on a token balance list: the index of the first entry
\* with b.mint === mint && b.owner === owner, 0 when there is none
findTokenBalance(list, mint, owner) ==
    LET hits == {i \in 1..Len(list) :
                    list[i].mint = mint /\ list[i].owner = owner}
    IN  IF hits = {} THEN 0 ELSE CHOOSE i \in hits : \A j \in hits : i <= j

\* b?.uiTokenAmount?.uiAmountString ? parseFloat(...) : 0 after list?.find(...)
tokenAmount(present, list, mint, owner) ==
    LET i == IF present THEN findTokenBalance(list, mint, owner) ELSE 0
    IN  IF i = 0 \/ list[i].uiAmountString = <<>> THEN Zero
        ELSE parseFloat(list[i].uiAmountString)

\* accountKeys.findIndex(acc => acc.pubkey.toBase58() === SOLANA_ADDR),
\* 1-based; 0 stands for -1
findIndex(keys, addr) ==
    LET hits == {i \in 1..Len(keys) : keys[i] = addr}
    IN  IF hits = {} THEN 0 ELSE CHOOSE i \in hits : \A j \in hits : i <= j

\* (balances[accountIndex] || 0) / LAMPORTS_PER_SOL
nativeAmount(balances, i) ==
    IF i = 0 THEN Zero
    ELSE LamportsToSol(IF i <= Len(balances) THEN balances[i] ELSE 0)

\* if (!USDC_MINT || !SOLANA_ADDR) return null   (index.ts, before the fetch)
criteriaSet == USDC_MINT # <<>> /\ SOLANA_ADDR # ""

\* mutant: the check of tx.meta left out
fetchAndProcessWithoutMetaCheck(tx, signature) ==
    IF tx.isNull THEN NullResult
    ELSE TransactionResult(signature,
             tokenAmount(tx.hasPreTokenBalances, tx.preTokenBalances,
                         USDC_MINT, SOLANA_ADDR),
             tokenAmount(tx.hasPostTokenBalances, tx.postTokenBalances,
                         USDC_MINT, SOLANA_ADDR),
             tx.blockTime)

\* mutant: the pre amount read from the row the store holds for the signature
fetchAndProcessUsingStore(tx, signature) ==
    IF tx.isNull \/ ~tx.hasMeta THEN NullResult
    ELSE LET rows == {x \in store : x.signature = signature}
         IN  TransactionResult(signature,
                 IF rows = {}
                 THEN tokenAmount(tx.hasPreTokenBalances, tx.preTokenBalances,
                                  USDC_MINT, SOLANA_ADDR)
                 ELSE (CHOOSE x \in rows : TRUE).post_amount,
                 tokenAmount(tx.hasPostTokenBalances, tx.postTokenBalances,
                             USDC_MINT, SOLANA_ADDR),
                 tx.blockTime)

\* mutant: the SOL branch left out, the token balance lists always consulted
fetchAndProcessTokenOnly(tx, signature) ==
    IF tx.isNull \/ ~tx.hasMeta THEN NullResult
    ELSE TransactionResult(signature,
             tokenAmount(tx.hasPreTokenBalances, tx.preTokenBalances,
                         USDC_MINT, SOLANA_ADDR),
             tokenAmount(tx.hasPostTokenBalances, tx.postTokenBalances,
                         USDC_MINT, SOLANA_ADDR),
             tx.blockTime)

\* fetchAndProcessSolanaTransaction from the resolved fetch on (index.ts)
fetchAndProcessSolanaTransaction(tx, signature) ==
    IF tx.isNull \/ ~tx.hasMeta THEN NullResult
    ELSE IF toUpperCase(USDC_MINT) = <<"S", "O", "L">>
    THEN LET accountIndex == findIndex(tx.accountKeys, SOLANA_ADDR)
         IN  TransactionResult(signature,
                               nativeAmount(tx.preBalances, accountIndex),
                               nativeAmount(tx.postBalances, accountIndex),
                               tx.blockTime)
    ELSE TransactionResult(signature,
             tokenAmount(tx.hasPreTokenBalances, tx.preTokenBalances,
                         USDC_MINT, SOLANA_ADDR),
             tokenAmount(tx.hasPostTokenBalances, tx.postTokenBalances,
                         USDC_MINT, SOLANA_ADDR),
             tx.blockTime)

\* mutant: the check of the two environment values left out
processTransactionWithoutCriteriaCheck(tx, signature) ==
    IF tx.isNull \/ ~tx.hasMeta THEN NullResult
    ELSE TransactionResult(signature,
             tokenAmount(tx.hasPreTokenBalances, tx.preTokenBalances,
                         USDC_MINT, SOLANA_ADDR),
             tokenAmount(tx.hasPostTokenBalances, tx.postTokenBalances,
                         USDC_MINT, SOLANA_ADDR),
             tx.blockTime)

\* processTransaction from the resolved fetch on (Express server)
processTransaction(tx, signature) ==
    IF tx.isNull \/ ~tx.hasMeta \/ ~criteriaSet THEN NullResult
    ELSE TransactionResult(signature,
             tokenAmount(tx.hasPreTokenBalances, tx.preTokenBalances,
                         USDC_MINT, SOLANA_ADDR),
             tokenAmount(tx.hasPostTokenBalances, tx.postTokenBalances,
                         USDC_MINT, SOLANA_ADDR),
             tx.blockTime)

(***************************************************************************)
(* The ledger: what one getParsedTransaction call may resolve to.  The     *)
(* ledger is a black box: any call may return any record, or reject.       *)
(***************************************************************************)
\* a transfer to the watched owner: token 10 -> 10.01, native 1 -> 2 SOL
TxTransfer ==
    ParsedTx(TRUE, <<OtherAddr, WatchedAddr>>,
             <<500000000, 1000000000>>, <<500000000, 2000000000>>,
             TRUE, <<TokenBalance(OtherMint, WatchedAddr, <<"5">>),
                     TokenBalance(TokenMint, WatchedAddr, <<"1", "0">>)>>,
             TRUE, <<TokenBalance(TokenMint, OtherAddr, <<"7">>),
                     TokenBalance(TokenMint, WatchedAddr,
                                  <<"1", "0", ".", "0", "1">>)>>,
             1700000000)

\* the token account is created by the transaction: no pre list, the watched
\* address is not among the account keys, no block time
TxCreated ==
    ParsedTx(TRUE, <<OtherAddr>>, <<500000000>>, <<400000000>>,
             FALSE, <<>>,
             TRUE, <<TokenBalance(TokenMint, WatchedAddr, <<"1", ".", "5">>)>>,
             0)

\* a malformed and an empty amount string; a post native balance is missing
TxMalformed ==
    ParsedTx(TRUE, <<OtherAddr, WatchedAddr>>, <<0, 1500000000>>, <<0>>,
             TRUE, <<TokenBalance(TokenMint, WatchedAddr, <<"x">>)>>,
             TRUE, <<TokenBalance(TokenMint, WatchedAddr, <<>>)>>,
             86400)

TxNoMeta ==
    ParsedTx(FALSE, <<WatchedAddr>>, <<>>, <<>>, FALSE, <<>>, FALSE, <<>>,
             1700000000)

LedgerRecords == {NullTx, TxNoMeta, TxTransfer, TxCreated, TxMalformed}

\* the outcomes of one call: resolved with a record, or rejected
LedgerOutcomes ==
    {[threw |-> FALSE, tx |-> t] : t \in LedgerRecords}
        \cup {[threw |-> TRUE, tx |-> NullTx]}

(***************************************************************************)
(* Webhook bodies, as req.json() / express.json() yield them.              *)
(*   kind "invalid": not JSON; "null": the JSON value null;                *)
(*   "array": len elements, the first one null (firstIsNull) or an object  *)
(*            with signature firstSignature ("" when it has none);         *)
(*   "object": event.transaction[0].signature is eventSignature and        *)
(*            signature is the direct field ("" when absent);              *)
(*   "none": the request carries no body.                                  *)
(* An array parsed from JSON has no named properties.                      *)
(***************************************************************************)
Body(kind, len, firstIsNull, firstSignature, eventSignature, signature) ==
    [kind |-> kind, len |-> len, firstIsNull |-> firstIsNull,
     firstSignature |-> firstSignature, eventSignature |-> eventSignature,
     signature |-> signature]

NoBody == Body("none", 0, FALSE, "", "", "")

InvalidJson == Body("invalid", 0, FALSE, "", "", "")

JsonNull == Body("null", 0, FALSE, "", "", "")

EmptyObject == Body("object", 0, FALSE, "", "", "")

EmptyArray == Body("array", 0, FALSE, "", "", "")

ArrayOfNull == Body("array", 1, TRUE, "", "", "")

ArrayBody(sig) == Body("array", 1, FALSE, sig, "", "")

EventBody(sig) == Body("object", 0, FALSE, "", sig, "")

DirectBody(sig) == Body("object", 0, FALSE, "", "", sig)

EventAndDirectBody(esig, dsig) == Body("object", 0, FALSE, "", esig, dsig)

Bodies ==
    {InvalidJson, JsonNull, EmptyObject, EmptyArray, ArrayOfNull,
     ArrayBody(""), ArrayBody("S1"), EventBody("S2"), DirectBody("S1"),
     EventAndDirectBody("S1", "S2")}

\* req.json() throws, or reading a property of null throws (index.ts 139-142)
parseThrows(body) ==
    \/ body.kind = "invalid"
    \/ body.kind = "array" /\ body.len > 0 /\ body.firstIsNull
    \/ body.kind = "null"

\* mutant: the direct signature field tried first
selectSignatureDirectFirst(body) ==
    IF body.signature # "" THEN body.signature
    ELSE IF body.kind = "array" /\ body.len > 0 /\ body.firstSignature # ""
    THEN body.firstSignature
    ELSE body.eventSignature

\* index.ts 140-142: the signature selected, "" when none (undefined)
selectSignature(body) ==
    IF body.kind = "array" /\ body.len > 0 /\ body.firstSignature # ""
    THEN body.firstSignature
    ELSE IF body.eventSignature # "" THEN body.eventSignature
    ELSE IF body.signature # "" THEN body.signature
    ELSE ""

\* express.json() (strict) rejects what is not a JSON object or array
expressBodyRejected(body) == body.kind \in {"invalid", "null"}

\* req.body.event?.transaction?.[0]?.signature (Express server)
expressSignature(body) == body.eventSignature

(***************************************************************************)
(* Requests.                                                               *)
(*   pc          "idle" not yet received; "fetch" awaiting the ledger;     *)
(*               "store" awaiting the upsert; "done" responded             *)
(*   body        the body as parsed, once something has read it            *)
(*   handler     the handler the router dispatched to                      *)
(*   fetches     getParsedTransaction calls made                           *)
(*   fetched     the call resolved with a value (tx)                       *)
(*   processedTx the extraction result (NullResult: null)                  *)
(*   upserts     upsert calls made;  dbError: storeTransactionInDb         *)
(*               returned an error                                         *)
(*   status, data, source   the response: HTTP status, the result it       *)
(*               carries (NullResult: none), its "source" field            *)
(*   responses   history: the responses sent for the request               *)
(*   headers     the response's headers: "default" for defaultHeaders,     *)
(*               "" for none of them (HeadersOf)                           *)
(*   rowAtStart  history: the store held a row for the signature when      *)
(*               the handler started                                       *)
(*   thrown      history: what threw while the request was handled         *)
(*               ("ledger", "response"; "": nothing)                       *)
(*   escaped     history: the exception left the serve callback            *)
(***************************************************************************)
FunctionName == "solana-transaction-handler"

NewRequest(method, path) ==
    [pc |-> "idle", method |-> method, path |-> path, body |-> NoBody,
     handler |-> "none", signature |-> "", rowAtStart |-> FALSE,
     fetches |-> 0, fetched |-> FALSE, tx |-> NullTx,
     processedTx |-> NullResult, upserts |-> 0, dbError |-> FALSE,
     status |-> 0, data |-> NullResult, source |-> "", headers |-> "",
     responses |-> 0, thrown |-> "", escaped |-> FALSE]

Idle == NewRequest("", <<>>)

\* createJsonResponse: defaultHeaders (index.ts 123-128)
defaultHeaders ==
    {<<"Content-Type", "application/json">>,
     <<"Access-Control-Allow-Origin", "*">>,
     <<"Access-Control-Allow-Methods", "GET, POST, OPTIONS">>,
     <<"Access-Control-Allow-Headers", "Content-Type, Authorization">>}

\* the null body statuses of the Fetch standard
NullBodyStatus == {101, 103, 204, 205, 304}

\* createJsonResponse(body, status) (index.ts 122-133).  JSON.stringify
\* yields a string for every body the function passes ("null" for null),
\* and new Response(body, {status}) with a body that is not null throws a
\* TypeError when status is a null body status.
createJsonResponse(q, status) ==
    IF status \in NullBodyStatus THEN [q EXCEPT !.thrown = "response"]
    ELSE [q EXCEPT !.pc = "done", !.status = status,
                   !.headers = "default", !.responses = @ + 1]

\* the headers of the response of q
HeadersOf(q) == IF q.headers = "default" THEN defaultHeaders ELSE {}

\* an exception that leaves the serve callback: the server of
\* std@0.177.0/http answers with its own onError response, a plain
\* "Internal Server Error" of status 500
onError(q) ==
    [q EXCEPT !.pc = "done", !.status = 500, !.escaped = TRUE,
              !.responses = @ + 1]

hasRow(rows, signature) == \E x \in rows : x.signature = signature

\* the call of fetchAndProcessSolanaTransaction up to its await (index.ts
\* 55-63): null at once when the criteria are unset, for either handler 404
callFetchAndProcess(q) ==
    IF ~criteriaSet THEN createJsonResponse(q, 404)
    ELSE [q EXCEPT !.pc = "fetch", !.fetches = @ + 1]

\* mutant: the check "if (!signature)" left out
handleWebhookPostWithoutCheck(q0, body) ==
    LET q == [q0 EXCEPT !.handler = "webhook", !.body = body]
    IN  IF parseThrows(body) THEN createJsonResponse(q, 400)
        ELSE callFetchAndProcess(
                 [q EXCEPT !.signature = selectSignature(body),
                           !.rowAtStart = hasRow(store, selectSignature(body))])

\* handleWebhookPost up to its first I/O (index.ts 136-154)
handleWebhookPost(q0, body) ==
    LET q == [q0 EXCEPT !.handler = "webhook", !.body = body]
        signature == selectSignature(body)
    IN  IF parseThrows(body) THEN createJsonResponse(q, 400)
        ELSE IF signature = "" THEN createJsonResponse(q, 400)
        ELSE callFetchAndProcess(
                 [q EXCEPT !.signature = signature,
                           !.rowAtStart = hasRow(store, signature)])

\* handleGetTransaction up to its first I/O (index.ts 170-175)
handleGetTransaction(q, signature) ==
    IF signature = "" THEN createJsonResponse(q, 400)
    ELSE callFetchAndProcess(
             [q EXCEPT !.handler = "get", !.signature = signature,
                       !.rowAtStart = hasRow(store, signature)])

(***************************************************************************)
(* Path names are strings written as sequences of pieces: "/" and the      *)
(* words between the slashes, a word possibly in several pieces:           *)
(* <<"/", FunctionName, "webhook">> is "/solana-transaction-handlerwebhook" *)
(***************************************************************************)
startsWith(s, prefix) ==
    Len(s) >= Len(prefix) /\ SubSeq(s, 1, Len(prefix)) = prefix

substring(s, start) == SubSeq(s, start + 1, Len(s))

\* s.split('/'): the pieces between the slashes, each as one string
RECURSIVE splitFrom(_, _, _)
splitFrom(s, i, piece) ==
    IF i > Len(s) THEN <<piece>>
    ELSE IF s[i] = "/" THEN <<piece>> \o splitFrom(s, i + 1, "")
    ELSE splitFrom(s, i + 1, piece \o s[i])

split(s) == splitFrom(s, 1, "")

nonEmpty(piece) == piece # ""

deployedBasePath == <<"/", "functions", "/", "v1", "/", FunctionName>>

localBasePath == <<"/", FunctionName>>

\* s || "/" (index.ts 207 and 209)
orSlash(s) == IF s = <<>> THEN <<"/">> ELSE s

\* mutant: only the deployed base path is stripped
relativePathDeployedOnly(pathname) ==
    IF startsWith(pathname, deployedBasePath)
    THEN orSlash(substring(pathname, Len(deployedBasePath)))
    ELSE pathname

\* index.ts 205-213: the path after the base path is stripped
relativePath(pathname) ==
    IF startsWith(pathname, deployedBasePath)
    THEN orSlash(substring(pathname, Len(deployedBasePath)))
    ELSE IF startsWith(pathname, localBasePath)
    THEN orSlash(substring(pathname, Len(localBasePath)))
    ELSE pathname

\* index.ts 218: relativePath.split('/').filter(s => s.length > 0)
pathSegmentsOf(pathname) == SelectSeq(split(relativePath(pathname)), nonEmpty)

\* the serve callback up to the first I/O (index.ts 191-245); body is what
\* req.json() would yield
serve(q, body) ==
    LET pathSegments == pathSegmentsOf(q.path)
        mainRouteSegment == IF pathSegments = <<>> THEN "" ELSE pathSegments[1]
        preflight == createJsonResponse(q, 204)
    IN  IF q.method = "OPTIONS"
        THEN IF preflight.thrown # "" THEN onError(preflight) ELSE preflight
        ELSE IF q.method = "POST" /\ mainRouteSegment = "webhook"
                  /\ Len(pathSegments) = 1
        THEN handleWebhookPost(q, body)
        ELSE IF q.method = "GET" /\ mainRouteSegment = "transaction"
                  /\ Len(pathSegments) = 2
        THEN IF pathSegments[2] # ""
             THEN handleGetTransaction(q, pathSegments[2])
             ELSE createJsonResponse(q, 400)
        ELSE createJsonResponse(q, 404)

\* storeTransactionInDb: dataToStore (index.ts 95-101)
StoredTransactionData(transaction) ==
    [signature |-> transaction.signature,
     pre_amount |-> transaction.preAmount,
     post_amount |-> transaction.postAmount,
     ui_amount |-> transaction.uiAmount,
     transaction_timestamp |-> transaction.timestamp]

\* mutant: the check "if (!processedTx)" left out
webhookAfterFetchWithoutNullCheck(q, processedTx) ==
    LET q1 == [q EXCEPT !.processedTx = processedTx]
    IN  IF ~supabaseClient
        THEN createJsonResponse([q1 EXCEPT !.dbError = TRUE], 500)
        ELSE [q1 EXCEPT !.pc = "store", !.upserts = @ + 1]

\* mutant: the check "if (!supabaseClient)" of storeTransactionInDb left out
webhookAfterFetchWithoutClientCheck(q, processedTx) ==
    LET q1 == [q EXCEPT !.processedTx = processedTx]
    IN  IF processedTx.isNull THEN createJsonResponse(q1, 404)
        ELSE [q1 EXCEPT !.pc = "store", !.upserts = @ + 1]

\* handleWebhookPost from the resolved fetch to the call of upsert
\* (index.ts 154-160 and 93-104)
webhookAfterFetch(q, processedTx) ==
    LET q1 == [q EXCEPT !.processedTx = processedTx]
    IN  IF processedTx.isNull THEN createJsonResponse(q1, 404)
        ELSE IF ~supabaseClient
        THEN createJsonResponse([q1 EXCEPT !.dbError = TRUE], 500)
        ELSE [q1 EXCEPT !.pc = "store", !.upserts = @ + 1]

\* mutant: the result of the live fetch written back to the store
getAfterFetchStoring(q, liveTx) ==
    LET q1 == [q EXCEPT !.processedTx = liveTx]
    IN  IF liveTx.isNull THEN createJsonResponse(q1, 404)
        ELSE [q1 EXCEPT !.pc = "store", !.upserts = @ + 1]

\* mutant: the check "if (!liveTx)" left out
getAfterFetchWithoutNullCheck(q, liveTx) ==
    createJsonResponse(
        [q EXCEPT !.processedTx = liveTx, !.data = liveTx,
                  !.source = "live_solana_api"], 200)

\* handleGetTransaction from the resolved fetch on (index.ts 175-187)
getAfterFetch(q, liveTx) ==
    LET q1 == [q EXCEPT !.processedTx = liveTx]
    IN  IF liveTx.isNull THEN createJsonResponse(q1, 404)
        ELSE createJsonResponse(
                 [q1 EXCEPT !.data = liveTx, !.source = "live_solana_api"], 200)

\* the serve callback's catch (index.ts 246-251)
serveCatch(q) == createJsonResponse(q, 500)

\* mutant: the store error swallowed
webhookAfterUpsertSwallowing(q, dbError) ==
    createJsonResponse([q EXCEPT !.dbError = dbError, !.data = q.processedTx],
                       200)

\* handleWebhookPost after the upsert resolved (index.ts 160-167)
webhookAfterUpsert(q, dbError) ==
    IF dbError THEN createJsonResponse([q EXCEPT !.dbError = TRUE], 500)
    ELSE createJsonResponse([q EXCEPT !.data = q.processedTx], 200)

\* fetchTransactionFromDb (index.ts 108-119), which no handler calls: the
\* row of the signature as data (none: {}), or an error message; "no row"
\* (PGRST116) is not an error
fetchTransactionFromDb(signature) ==
    IF ~supabaseClient
    THEN [data |-> {}, error |-> "Supabase client not initialized."]
    ELSE [data |-> {x \in store : x.signature = signature}, error |-> ""]

\* mutant: a plain insert into a table without the UNIQUE constraint
upsertAsInsert(rows, row) == rows \cup {row}

\* mutant: { ignoreDuplicates: true }, the existing row is kept
upsertIgnoringDuplicates(rows, row) ==
    IF \E x \in rows : x.signature = row.signature THEN rows
    ELSE rows \cup {row}

\* .upsert(dataToStore, { onConflict: 'signature' }) on a table whose
\* signature column is UNIQUE
upsert(rows, row) == {x \in rows : x.signature # row.signature} \cup {row}

\* every amount column is DOUBLE PRECISION NOT NULL, and JSON.stringify
\* writes NaN as null
rowAccepted(row) ==
    ~IsNaN(row.pre_amount) /\ ~IsNaN(row.post_amount) /\ ~IsNaN(row.ui_amount)

(***************************************************************************)
(* The Express server.                                                     *)
(***************************************************************************)
\* res.status(...).json(...), res.sendStatus(...) and Express's own 404 and
\* error responses: no header of defaultHeaders is set
expressSend(q, status) ==
    [q EXCEPT !.pc = "done", !.status = status, !.responses = @ + 1]

\* app.post('/api/webhook') up to the await (Express server 62-75)
expressWebhook(q0, body) ==
    LET q == [q0 EXCEPT !.handler = "webhook", !.body = body]
    IN  IF expressSignature(body) = "" THEN expressSend(q, 400)
        ELSE [q EXCEPT !.signature = expressSignature(body),
                       !.pc = "fetch", !.fetches = @ + 1]

\* app.get('/api/tx/:signature') up to the await (Express server 91-102)
expressGetTx(q, signature) ==
    IF signature = "" THEN expressSend(q, 400)
    ELSE [q EXCEPT !.handler = "get", !.signature = signature,
                   !.pc = "fetch", !.fetches = @ + 1]

\* app.use(express.json()), then Express routing of the two routes;
\* anything else is Express's 404
expressRoute(q, body) ==
    IF expressBodyRejected(body)
    THEN expressSend([q EXCEPT !.body = body], 400)
    ELSE LET segments == SelectSeq(split(q.path), nonEmpty)
         IN  IF q.method = "POST" /\ segments = <<"api", "webhook">>
             THEN expressWebhook(q, body)
             ELSE IF q.method = "GET" /\ Len(segments) = 3
                       /\ SubSeq(segments, 1, 2) = <<"api", "tx">>
             THEN expressGetTx(q, segments[3])
             ELSE expressSend(q, 404)

\* both Express handlers from the resolved fetch on (75-84, 102-114)
expressAfterFetch(q, result) ==
    LET q1 == [q EXCEPT !.processedTx = result]
    IN  IF result.isNull THEN expressSend(q1, 404)
        ELSE IF q.handler = "get"
        THEN expressSend([q1 EXCEPT !.data = result], 200)
        ELSE expressSend(q1, 200)

\* next(err): Express's default error handler
expressNextErr(q) == expressSend(q, 500)

(***************************************************************************)
(* Inputs.                                                                 *)
(***************************************************************************)
EdgePaths ==
    {<<"/", "functions", "/", "v1", "/", FunctionName, "/", "webhook">>,
     <<"/", FunctionName, "/", "transaction", "/", "S1">>,
     <<"/", "transaction", "/">>}

ExpressPaths ==
    {<<"/", "api", "/", "webhook">>, <<"/", "api", "/", "tx", "/", "S1">>,
     <<"/", "api", "/", "tx", "/">>}

EdgeMethods == {"GET", "POST", "OPTIONS"}

ExpressMethods == {"GET", "POST"}

\* the bodies a request may carry: only a POST is given one that matters
BodiesOf(method) == IF method = "POST" THEN Bodies ELSE {NoBody}

\* <<USDC_MINT, SOLANA_ADDR>> as the environment may set them: one of them
\* unset, a token mint, the native selector
TokenCriteria ==
    {<< <<>>, WatchedAddr >>, << TokenMint, "" >>, << TokenMint, WatchedAddr >>}

Criteria == TokenCriteria \cup {<< <<"s", "o", "l">>, WatchedAddr >>}

(***************************************************************************)
(* The state machine.                                                      *)
(***************************************************************************)
\* the native selector is left to the specifications of the extraction
Init ==
    /\ variant \in {"edge", "express"}
    /\ \E c \in TokenCriteria : USDC_MINT = c[1] /\ SOLANA_ADDR = c[2]
    /\ supabaseClient \in (IF variant = "edge" THEN BOOLEAN ELSE {FALSE})
    /\ store = {}
    /\ lastUpsert = [s \in Signatures |-> {}]
    /\ requests = [r \in Req |-> Idle]

\* requests are received in the order of their numbers
mayReceive(r) ==
    /\ requests[r].pc = "idle"
    /\ IF r = 1 THEN TRUE ELSE requests[r - 1].pc # "idle"

\* the serverless function receives a request
EdgeReceive(r) ==
    /\ variant = "edge"
    /\ mayReceive(r)
    /\ \E method \in EdgeMethods, path \in EdgePaths :
         \E body \in BodiesOf(method) :
            requests' = [requests EXCEPT
                            ![r] = serve(NewRequest(method, path), body)]
    /\ UNCHANGED <<variant, USDC_MINT, SOLANA_ADDR, supabaseClient, store,
                   lastUpsert>>

\* getParsedTransaction settles in the serverless function
EdgeLedgerReturn(r) ==
    /\ variant = "edge"
    /\ requests[r].pc = "fetch"
    /\ \E o \in LedgerOutcomes :
         LET q == requests[r]
             q1 == [q EXCEPT !.fetched = ~o.threw, !.tx = o.tx,
                             !.thrown = IF o.threw THEN "ledger" ELSE ""]
             result == fetchAndProcessSolanaTransaction(o.tx, q.signature)
         IN  requests' = [requests EXCEPT ![r] =
                 IF o.threw THEN serveCatch(q1)
                 ELSE IF q.handler = "webhook"
                 THEN webhookAfterFetch(q1, result)
                 ELSE getAfterFetch(q1, result)]
    /\ UNCHANGED <<variant, USDC_MINT, SOLANA_ADDR, supabaseClient, store,
                   lastUpsert>>

\* the upsert settles: committed, or an error and nothing written.  The
\* client of supabase-js@2 does not throw: a failed transport is returned as
\* an error value like any other failure.
UpsertReturn(r) ==
    /\ requests[r].pc = "store"
    /\ LET q == requests[r]
           row == StoredTransactionData(q.processedTx)
       IN  \/ /\ rowAccepted(row)
              /\ store' = upsert(store, row)
              /\ lastUpsert' = [lastUpsert EXCEPT ![row.signature] = {row}]
              /\ requests' = [requests EXCEPT ![r] = webhookAfterUpsert(q, FALSE)]
           \/ /\ requests' = [requests EXCEPT ![r] = webhookAfterUpsert(q, TRUE)]
              /\ UNCHANGED <<store, lastUpsert>>
    /\ UNCHANGED <<variant, USDC_MINT, SOLANA_ADDR, supabaseClient>>

\* the Express server receives a request
ExpressReceive(r) ==
    /\ variant = "express"
    /\ mayReceive(r)
    /\ \E method \in ExpressMethods, path \in ExpressPaths :
         \E body \in BodiesOf(method) :
            requests' = [requests EXCEPT
                            ![r] = expressRoute(NewRequest(method, path), body)]
    /\ UNCHANGED <<variant, USDC_MINT, SOLANA_ADDR, supabaseClient, store,
                   lastUpsert>>

\* getParsedTransaction settles in the Express server
ExpressLedgerReturn(r) ==
    /\ variant = "express"
    /\ requests[r].pc = "fetch"
    /\ \E o \in LedgerOutcomes :
         LET q == requests[r]
             q1 == [q EXCEPT !.fetched = ~o.threw, !.tx = o.tx,
                             !.thrown = IF o.threw THEN "ledger" ELSE ""]
         IN  requests' = [requests EXCEPT ![r] =
                 IF o.threw THEN expressNextErr(q1)
                 ELSE expressAfterFetch(q1,
                          processTransaction(o.tx, q.signature))]
    /\ UNCHANGED <<variant, USDC_MINT, SOLANA_ADDR, supabaseClient, store,
                   lastUpsert>>

Next ==
    \E r \in Req :
        \/ EdgeReceive(r)
        \/ EdgeLedgerReturn(r)
        \/ UpsertReturn(r)
        \/ ExpressReceive(r)
        \/ ExpressLedgerReturn(r)

Spec == Init /\ [][Next]_vars

(***************************************************************************)
(* The router of the serverless function over many path names: one         *)
(* request, its path a base path (or none) followed by any string of at    *)
(* most MaxSuffixLen pieces.                                               *)
(***************************************************************************)
MaxSuffixLen == 4

PathPieces == {"/", "webhook", "transaction", "S1", FunctionName}

RECURSIVE StringsUpTo(_)
StringsUpTo(n) ==
    IF n = 0 THEN {<<>>}
    ELSE LET shorter == StringsUpTo(n - 1)
         IN  shorter \cup {Append(s, c) : s \in shorter, c \in PathPieces}

BasePaths == {<<>>, localBasePath, deployedBasePath}

\* url.pathname always begins with a slash
RouterPaths ==
    {p \in {base \o suffix : base \in BasePaths,
                             suffix \in StringsUpTo(MaxSuffixLen)} :
        startsWith(p, <<"/">>)}

RouterMethods == {"GET", "POST", "PUT", "OPTIONS"}

RouterBodiesOf(method) ==
    IF method = "POST" THEN {EmptyObject, DirectBody("S1")} ELSE {NoBody}

RouterInit ==
    /\ variant = "edge"
    /\ USDC_MINT = TokenMint /\ SOLANA_ADDR = WatchedAddr
    /\ supabaseClient \in BOOLEAN
    /\ store = {}
    /\ lastUpsert = [s \in Signatures |-> {}]
    /\ requests = [r \in Req |-> Idle]

RouterReceive ==
    /\ requests[1].pc = "idle"
    /\ \E method \in RouterMethods, path \in RouterPaths :
         \E body \in RouterBodiesOf(method) :
            requests' = [requests EXCEPT
                            ![1] = serve(NewRequest(method, path), body)]
    /\ UNCHANGED <<variant, USDC_MINT, SOLANA_ADDR, supabaseClient, store,
                   lastUpsert>>

RouterNext == RouterReceive \/ EdgeLedgerReturn(1) \/ UpsertReturn(1)

SpecRouter == RouterInit /\ [][RouterNext]_vars

(***************************************************************************)
(* The two variants side by side: request 1 is handled by the serverless   *)
(* function and request 2 by the Express server, with the same watch       *)
(* criteria; both are given the same request (a webhook payload, or a      *)
(* signature to query) and their ledger calls settle the same way.         *)
(***************************************************************************)
PairInit ==
    /\ variant = "both"
    /\ \E c \in Criteria : USDC_MINT = c[1] /\ SOLANA_ADDR = c[2]
    /\ supabaseClient \in BOOLEAN
    /\ store = {}
    /\ lastUpsert = [s \in Signatures |-> {}]
    /\ requests = [r \in Req |-> Idle]

PairReceive ==
    /\ requests[1].pc = "idle"
    /\ \/ \E body \in Bodies :
            requests' = [requests EXCEPT
                ![1] = serve(NewRequest("POST",
                                 deployedBasePath \o <<"/", "webhook">>), body),
                ![2] = expressRoute(NewRequest("POST",
                                 <<"/", "api", "/", "webhook">>), body)]
       \/ \E signature \in Signatures :
            requests' = [requests EXCEPT
                ![1] = serve(NewRequest("GET",
                                 localBasePath
                                    \o <<"/", "transaction", "/", signature>>),
                             NoBody),
                ![2] = expressRoute(NewRequest("GET",
                                 <<"/", "api", "/", "tx", "/", signature>>),
                             NoBody)]
    /\ UNCHANGED <<variant, USDC_MINT, SOLANA_ADDR, supabaseClient, store,
                   lastUpsert>>

\* getParsedTransaction settles, the same way in both variants
PairLedgerReturn ==
    /\ requests[1].pc = "fetch" \/ requests[2].pc = "fetch"
    /\ \E o \in LedgerOutcomes :
         LET afterFetch(q) ==
                 [q EXCEPT !.fetched = ~o.threw, !.tx = o.tx,
                           !.thrown = IF o.threw THEN "ledger" ELSE ""]
             q1 == afterFetch(requests[1])
             q2 == afterFetch(requests[2])
             result == fetchAndProcessSolanaTransaction(o.tx, q1.signature)
         IN  requests' = [requests EXCEPT
                 ![1] = IF requests[1].pc # "fetch" THEN requests[1]
                        ELSE IF o.threw THEN serveCatch(q1)
                        ELSE IF q1.handler = "webhook"
                        THEN webhookAfterFetch(q1, result)
                        ELSE getAfterFetch(q1, result),
                 ![2] = IF requests[2].pc # "fetch" THEN requests[2]
                        ELSE IF o.threw THEN expressNextErr(q2)
                        ELSE expressAfterFetch(q2,
                                 processTransaction(o.tx, q2.signature))]
    /\ UNCHANGED <<variant, USDC_MINT, SOLANA_ADDR, supabaseClient, store,
                   lastUpsert>>

PairNext == PairReceive \/ PairLedgerReturn \/ UpsertReturn(1)

SpecPair == PairInit /\ [][PairNext]_vars

(***************************************************************************)
(* The extraction over many ledger records: one request, a query or a      *)
(* webhook of shape 2, whose ledger call returns a record with any token   *)
(* balance lists of at most MaxEntries entries (or without the list).      *)
(***************************************************************************)
MaxEntries == 2

ExtractEntries ==
    {TokenBalance(TokenMint, WatchedAddr, <<"1", "0">>),
     TokenBalance(TokenMint, WatchedAddr, <<"1", "0", ".", "0", "1">>),
     TokenBalance(TokenMint, WatchedAddr, <<>>),
     TokenBalance(OtherMint, WatchedAddr, <<"5">>),
     TokenBalance(TokenMint, OtherAddr, <<"7">>)}

RECURSIVE ListsUpTo(_)
ListsUpTo(n) ==
    IF n = 0 THEN {<<>>}
    ELSE LET shorter == ListsUpTo(n - 1)
         IN  shorter \cup {Append(l, b) : l \in shorter, b \in ExtractEntries}

\* <<whether the record has the list, the list>>
ExtractLists ==
    {<<TRUE, l>> : l \in ListsUpTo(MaxEntries)} \cup {<<FALSE, <<>> >>}

ExtractRecords ==
    {ParsedTx(TRUE, <<OtherAddr, WatchedAddr>>,
              <<500000000, 1000000000>>, <<500000000, 2000000000>>,
              pre[1], pre[2], post[1], post[2], 1700000000) :
        pre \in ExtractLists, post \in ExtractLists}

ExtractInit ==
    /\ variant \in {"edge", "express"}
    /\ USDC_MINT \in {TokenMint, <<"s", "o", "l">>}
    /\ SOLANA_ADDR = WatchedAddr
    /\ supabaseClient = (variant = "edge")
    /\ store = {}
    /\ lastUpsert = [s \in Signatures |-> {}]
    /\ requests = [r \in Req |-> Idle]

ExtractReceive ==
    /\ requests[1].pc = "idle"
    /\ \E post \in BOOLEAN :
         LET method == IF post THEN "POST" ELSE "GET"
             body   == IF post THEN EventBody("S1") ELSE NoBody
         IN  requests' = [requests EXCEPT ![1] =
                 IF variant = "edge"
                 THEN serve(NewRequest(method,
                                IF post THEN <<"/", "webhook">>
                                ELSE <<"/", "transaction", "/", "S1">>), body)
                 ELSE expressRoute(NewRequest(method,
                                IF post THEN <<"/", "api", "/", "webhook">>
                                ELSE <<"/", "api", "/", "tx", "/", "S1">>),
                          body)]
    /\ UNCHANGED <<variant, USDC_MINT, SOLANA_ADDR, supabaseClient, store,
                   lastUpsert>>

\* getParsedTransaction resolves with a record
ExtractLedgerReturn ==
    /\ requests[1].pc = "fetch"
    /\ \E tx \in ExtractRecords :
         LET q  == requests[1]
             q1 == [q EXCEPT !.fetched = TRUE, !.tx = tx]
         IN  requests' = [requests EXCEPT ![1] =
                 IF variant = "express"
                 THEN expressAfterFetch(q1, processTransaction(tx, q.signature))
                 ELSE IF q.handler = "webhook"
                 THEN webhookAfterFetch(q1,
                          fetchAndProcessSolanaTransaction(tx, q.signature))
                 ELSE getAfterFetch(q1,
                          fetchAndProcessSolanaTransaction(tx, q.signature))]
    /\ UNCHANGED <<variant, USDC_MINT, SOLANA_ADDR, supabaseClient, store,
                   lastUpsert>>

ExtractNext == ExtractReceive \/ ExtractLedgerReturn \/ UpsertReturn(1)

SpecExtract == ExtractInit /\ [][ExtractNext]_vars

(***************************************************************************)
(* Vocabulary of the properties.                                           *)
(***************************************************************************)
\* r was dispatched to the webhook handler of the serverless function
EdgeWebhook(r) == variant = "edge" /\ requests[r].handler = "webhook"

\* r was dispatched to the query handler of the serverless function
EdgeGet(r) == variant = "edge" /\ requests[r].handler = "get"

Done(r) == requests[r].pc = "done"

\* the three tolerated payload shapes of the webhook (spec 4.3)
Shape1(body) ==
    body.kind = "array" /\ body.len >= 1 /\ ~body.firstIsNull
        /\ body.firstSignature # ""

Shape2(body) == body.kind = "object" /\ body.eventSignature # ""

Shape3(body) == body.kind = "object" /\ body.signature # ""

\* extraction was called for r and returned (it returns without a fetch
\* when the serverless function finds the criteria unset)
Extracted(r) ==
    \/ requests[r].fetched
    \/ /\ variant = "edge" /\ requests[r].signature # ""
       /\ Done(r) /\ requests[r].fetches = 0

NotApplicable(r) == Extracted(r) /\ requests[r].processedTx.isNull

RowsOf(signature) == {x \in store : x.signature = signature}

(***************************************************************************)
(* C1.  Query by signature in the serverless function: a signature that    *)
(* had a row in the store when the GET handler started is answered from    *)
(* the store with no ledger fetch, and a signature without a row is        *)
(* answered after exactly one ledger fetch.                                *)
(* Stated for a process whose watch criteria are set.                      *)
(* handleGetTransaction never consults the store: TLC refutes this.        *)
(***************************************************************************)
C1_StoreThenFallback ==
    \A r \in Req :
        EdgeGet(r) /\ Done(r) /\ criteriaSet =>
            IF requests[r].rowAtStart
            THEN /\ requests[r].fetches = 0
                 /\ requests[r].status = 200
                 /\ requests[r].source # "live_solana_api"
            ELSE requests[r].fetches = 1

(***************************************************************************)
(* C2.  In one webhook request of the serverless function: at most one     *)
(* ledger fetch and at most one upsert; an upsert has been attempted only  *)
(* if the fetch resolved and extraction produced a result (so never after  *)
(* not-applicable or a 400); no response is out while the upsert is        *)
(* pending; and a 200 echoing the result is sent only after the upsert     *)
(* for that signature returned without error.                              *)
(***************************************************************************)
C2_WebhookStepsOrdered ==
    \A r \in Req :
        EdgeWebhook(r) =>
            LET q == requests[r]
            IN  /\ q.fetches <= 1
                /\ q.upserts <= 1
                /\ q.upserts <= q.fetches
                /\ q.upserts = 1 =>
                      /\ q.fetched
                      /\ ~q.processedTx.isNull
                      /\ q.processedTx =
                            fetchAndProcessSolanaTransaction(q.tx, q.signature)
                /\ q.status \in {400, 404} => q.upserts = 0
                /\ q.pc = "store" => q.status = 0 /\ q.upserts = 1
                /\ q.status = 200 =>
                      /\ q.upserts = 1
                      /\ ~q.dbError
                      /\ q.data = q.processedTx
                      /\ lastUpsert[q.signature] # {}

C2_Witness ==
    \E r \in Req :
        /\ EdgeWebhook(r)
        /\ requests[r].status = 200
        /\ requests[r].fetches = 1
        /\ requests[r].upserts = 1
        /\ requests[r].data.uiAmount
              = FSub(parseFloat(<<"1", "0", ".", "0", "1">>),
                     parseFloat(<<"1", "0">>))

(***************************************************************************)
(* C3.  In the webhook handler, the step in which the store reports an     *)
(* error after a successful extraction answers 500 (not 200, not 404) and  *)
(* leaves the store as it was.                                             *)
(***************************************************************************)
C3_StoreErrorIs500 ==
    [][\A r \in Req :
          EdgeWebhook(r) /\ ~requests[r].dbError /\ requests'[r].dbError =>
              /\ ~requests'[r].processedTx.isNull
              /\ requests'[r].pc = "done"
              /\ requests'[r].status = 500
              /\ store' = store]_vars

C3_Witness ==
    \E r \in Req :
        /\ EdgeWebhook(r)
        /\ requests[r].dbError
        /\ requests[r].upserts = 1
        /\ ~requests[r].processedTx.isNull
        /\ requests[r].status = 500
        /\ RowsOf(requests[r].signature) = {}

(***************************************************************************)
(* C4.  A webhook request whose body matches none of the three shapes      *)
(* (the empty object and invalid JSON among them) is answered 400, with    *)
(* no ledger fetch and no store operation, in both variants.               *)
(***************************************************************************)
C4_NoShapeIs400 ==
    \A r \in Req :
        LET q == requests[r]
        IN  /\ q.body # NoBody
            /\ ~Shape1(q.body) /\ ~Shape2(q.body) /\ ~Shape3(q.body)
            => /\ q.pc = "done"
               /\ q.status = 400
               /\ q.fetches = 0
               /\ q.upserts = 0

C4_Witness ==
    \E r1, r2 \in Req :
        /\ requests[r1].method = "POST" /\ requests[r1].body = EmptyObject
        /\ requests[r1].status = 400 /\ requests[r1].fetches = 0
        /\ requests[r2].method = "POST" /\ requests[r2].body = InvalidJson
        /\ requests[r2].status = 400 /\ requests[r2].fetches = 0

(***************************************************************************)
(* C5.  In both variants, when extraction yields not-applicable (as it     *)
(* does when the ledger returns null or a record without metadata), the    *)
(* webhook handler and the query handler respond 404 and the request       *)
(* makes no store write.                                                   *)
(***************************************************************************)
C5_NotApplicableIs404 ==
    \A r \in Req :
        LET q == requests[r]
        IN  /\ q.fetched /\ (q.tx.isNull \/ ~q.tx.hasMeta) => NotApplicable(r)
            /\ NotApplicable(r) =>
                  /\ q.pc = "done"
                  /\ q.status = 404
                  /\ q.upserts = 0

C5_Witness ==
    \E r1, r2 \in Req :
        /\ requests[r1].handler = "webhook" /\ requests[r1].fetched
        /\ requests[r1].tx.isNull /\ requests[r1].status = 404
        /\ requests[r2].handler = "get" /\ requests[r2].fetched
        /\ ~requests[r2].tx.isNull /\ ~requests[r2].tx.hasMeta
        /\ requests[r2].status = 404

(***************************************************************************)
(* C6.  Webhook signature selection.  FirstMatch is the signature of the   *)
(* lowest-numbered shape the body matches ("" when it matches none).       *)
(***************************************************************************)
FirstMatch(body) ==
    IF Shape1(body) THEN body.firstSignature
    ELSE IF Shape2(body) THEN body.eventSignature
    ELSE IF Shape3(body) THEN body.signature
    ELSE ""

\* the webhook handler has read r's body and the body matches a shape
WebhookBodyMatched(r) ==
    /\ requests[r].handler = "webhook"
    /\ Shape1(requests[r].body) \/ Shape2(requests[r].body)
          \/ Shape3(requests[r].body)

(***************************************************************************)
(* C6 as claimed: in either variant the three shapes are tried in order    *)
(* and the signature of the first matching shape is the one processed.     *)
(* The Express server reads only shape 2: TLC refutes this.                *)
(***************************************************************************)
C6_ThreeShapesEverywhere ==
    \A r \in Req :
        WebhookBodyMatched(r) =>
            /\ requests[r].signature = FirstMatch(requests[r].body)
            /\ requests[r].status # 400

(***************************************************************************)
(* C6 as amended: the serverless function tries the three shapes in order  *)
(* and processes the signature of the first matching shape (shape 2's for  *)
(* a body matching shapes 2 and 3); the Express server reads shape 2 only  *)
(* and answers 400, without a fetch, to a body that is not of shape 2.     *)
(***************************************************************************)
C6_ShapePriority ==
    \A r \in Req :
        LET q == requests[r]
        IN  WebhookBodyMatched(r) =>
                IF variant = "edge"
                THEN /\ q.signature = FirstMatch(q.body)
                     /\ q.status # 400
                     /\ criteriaSet => q.fetches = 1
                ELSE IF Shape2(q.body)
                THEN q.signature = q.body.eventSignature /\ q.fetches = 1
                ELSE q.status = 400 /\ q.fetches = 0

C6_Witness ==
    \E r \in Req :
        /\ EdgeWebhook(r)
        /\ requests[r].body = EventAndDirectBody("S1", "S2")
        /\ Shape2(requests[r].body) /\ Shape3(requests[r].body)
        /\ requests[r].signature = "S1"
        /\ requests[r].fetched
        /\ requests[r].processedTx.signature = "S1"

(***************************************************************************)
(* C7.  The store holds at most one row per signature, and the row of a    *)
(* signature is the row of the most recent successful upsert for it.       *)
(***************************************************************************)
C7_LastWriteWins ==
    /\ \A x, y \in store : x.signature = y.signature => x = y
    /\ \A s \in Signatures : RowsOf(s) = lastUpsert[s]

\* two upserts for one signature with different deltas have succeeded
C7_Witness ==
    \E r1, r2 \in Req :
        /\ r1 # r2
        /\ EdgeWebhook(r1) /\ requests[r1].status = 200
        /\ EdgeWebhook(r2) /\ requests[r2].status = 200
        /\ requests[r1].signature = requests[r2].signature
        /\ requests[r1].processedTx.uiAmount # requests[r2].processedTx.uiAmount
        /\ Cardinality(RowsOf(requests[r1].signature)) = 1

(***************************************************************************)
(* C8.  Two webhook deliveries for one signature, interleaved in any       *)
(* order: once both have finished and an upsert of theirs succeeded, the   *)
(* store holds exactly one row for the signature, the row is the           *)
(* extraction result of a delivery of that signature whose upsert          *)
(* succeeded, and it is the common result when the deliveries of that      *)
(* signature all produced the same result.                                 *)
(***************************************************************************)
C8_ConcurrentDeliveries ==
    \A r1, r2 \in Req :
        /\ r1 # r2
        /\ EdgeWebhook(r1) /\ Done(r1)
        /\ EdgeWebhook(r2) /\ Done(r2)
        /\ requests[r1].signature = requests[r2].signature
        /\ requests[r1].status = 200
        => LET s == requests[r1].signature
           IN  /\ Cardinality(RowsOf(s)) = 1
               /\ \E r \in Req :
                     /\ EdgeWebhook(r) /\ requests[r].signature = s
                     /\ requests[r].status = 200
                     /\ RowsOf(s) = {StoredTransactionData(requests[r].processedTx)}
               /\ (\A r \in Req :
                      (EdgeWebhook(r) /\ requests[r].signature = s
                          /\ requests[r].status = 200)
                      => requests[r].processedTx = requests[r1].processedTx)
                  => RowsOf(s) = {StoredTransactionData(requests[r1].processedTx)}

\* r1 was received before r2 and its upsert was committed after r2's: the
\* two deliveries overlapped
C8_Witness ==
    \E r1, r2 \in Req :
        /\ r1 < r2
        /\ EdgeWebhook(r1) /\ requests[r1].status = 200
        /\ EdgeWebhook(r2) /\ requests[r2].status = 200
        /\ requests[r1].signature = requests[r2].signature
        /\ requests[r1].processedTx # requests[r2].processedTx
        /\ RowsOf(requests[r1].signature)
              = {StoredTransactionData(requests[r1].processedTx)}

(***************************************************************************)
(* C9.  Every extraction result has uiAmount = postAmount - preAmount, and *)
(* every row of the store has ui_amount = post_amount - pre_amount and is  *)
(* the extraction result of a webhook request, field by field.             *)
(***************************************************************************)
C9_DeltaIsDifference ==
    /\ \A r \in Req :
          LET p == requests[r].processedTx
          IN  ~p.isNull =>
                 /\ p.uiAmount = FSub(p.postAmount, p.preAmount)
                 /\ p.signature = requests[r].signature
    /\ \A x \in store :
          /\ x.ui_amount = FSub(x.post_amount, x.pre_amount)
          /\ \E r \in Req :
                LET p == requests[r].processedTx
                IN  /\ requests[r].upserts = 1 /\ ~p.isNull
                    /\ x.signature = p.signature
                    /\ x.pre_amount = p.preAmount
                    /\ x.post_amount = p.postAmount
                    /\ x.ui_amount = p.uiAmount
                    /\ x.transaction_timestamp = p.timestamp

C9_Witness ==
    \E x \in store :
        /\ x.pre_amount = parseFloat(<<"1", "0">>)
        /\ x.post_amount = parseFloat(<<"1", "0", ".", "0", "1">>)
        /\ x.ui_amount = FSub(x.post_amount, x.pre_amount)
        /\ x.ui_amount # Zero
        /\ x.transaction_timestamp = <<2023, 11, 14, 22, 13, 20>>

(***************************************************************************)
(* C10.  Extraction returns not-applicable when the ledger record is null, *)
(* when it has no metadata, when the watched address is unset and when     *)
(* the asset selector is unset, and returns a result in every other case.  *)
(***************************************************************************)
C10_NotApplicableCases ==
    \A r \in Req :
        LET q == requests[r]
        IN  /\ q.fetched =>
                  (q.processedTx.isNull <=>
                      \/ q.tx.isNull
                      \/ ~q.tx.hasMeta
                      \/ SOLANA_ADDR = ""
                      \/ USDC_MINT = <<>>)
            /\ Extracted(r) /\ ~q.fetched =>
                  /\ SOLANA_ADDR = "" \/ USDC_MINT = <<>>
                  /\ q.processedTx.isNull
                  /\ q.status = 404
            /\ (variant = "edge" /\ q.signature # "" /\ ~criteriaSet) =>
                  NotApplicable(r) /\ q.fetches = 0

\* one extraction found no metadata, another one produced a result
C10_Witness ==
    \E r1, r2 \in Req :
        /\ requests[r1].fetched /\ ~requests[r1].tx.isNull
        /\ ~requests[r1].tx.hasMeta /\ requests[r1].processedTx.isNull
        /\ requests[r2].fetched /\ requests[r2].tx.hasMeta
        /\ ~requests[r2].processedTx.isNull

(***************************************************************************)
(* C11.  An exception raised while a request is handled (the ledger fetch  *)
(* or the store call throwing in particular) ends in a 500 response for    *)
(* that request: the request is answered, with 500 and never 404 or 200,   *)
(* it made no store write after the exception and echoes no result, and    *)
(* the exception did not leave the request handler uncaught.               *)
(***************************************************************************)
C11_ExceptionIs500 ==
    \A r \in Req :
        requests[r].thrown # "" =>
            /\ Done(r)
            /\ requests[r].status = 500
            /\ requests[r].data = NullResult
            /\ requests[r].thrown = "ledger" => requests[r].upserts = 0
            /\ ~requests[r].escaped

(***************************************************************************)
(* C12.  Extraction is deterministic: two requests of one run (same watch  *)
(* criteria) whose ledger call returned the same record for the same       *)
(* signature have the same extraction result, whatever the store held and  *)
(* whatever was handled in between, and the same response data when they   *)
(* went through the same handler to the same status.  Re-delivering a      *)
(* webhook: when every delivery of a signature answered 200 was given the  *)
(* same record, the store holds for the signature the one row of a single  *)
(* delivery.                                                               *)
(***************************************************************************)
C12_ExtractionDeterministic ==
    \A r1, r2 \in Req :
        /\ requests[r1].fetched /\ Done(r1)
        /\ requests[r2].fetched /\ Done(r2)
        /\ requests[r1].tx = requests[r2].tx
        /\ requests[r1].signature = requests[r2].signature
        => /\ requests[r1].processedTx = requests[r2].processedTx
           /\ (requests[r1].handler = requests[r2].handler
                 /\ requests[r1].status = requests[r2].status)
              => requests[r1].data = requests[r2].data
           /\ (/\ EdgeWebhook(r1) /\ requests[r1].status = 200
               /\ \A r \in Req :
                     (EdgeWebhook(r) /\ requests[r].status = 200
                         /\ requests[r].signature = requests[r1].signature)
                     => requests[r].tx = requests[r1].tx)
              => RowsOf(requests[r1].signature)
                    = {StoredTransactionData(requests[r1].processedTx)}

\* a webhook delivered twice, the second after the first was answered, with
\* the same record returned: both answered 200 with the same data
C12_Witness ==
    \E r1, r2 \in Req :
        /\ r1 < r2
        /\ EdgeWebhook(r1) /\ requests[r1].status = 200
        /\ EdgeWebhook(r2) /\ requests[r2].status = 200
        /\ requests[r2].rowAtStart
        /\ requests[r1].signature = requests[r2].signature
        /\ requests[r1].tx = requests[r2].tx
        /\ requests[r1].data = requests[r2].data
        /\ ~requests[r1].data.isNull
        /\ RowsOf(requests[r1].signature)
              = {StoredTransactionData(requests[r1].processedTx)}

(***************************************************************************)
(* C13.  The router of the serverless function.  RemainingPath is the      *)
(* path after the deployed or the local base path is stripped (the path    *)
(* itself when it begins with neither), RouteSegments its non-empty        *)
(* segments.  A request that is not OPTIONS goes to the webhook handler    *)
(* exactly when it is a POST and the segments are <<"webhook">>, to the    *)
(* query handler exactly when it is a GET and the segments are             *)
(* "transaction" and one signature, which the handler is given; any other  *)
(* request is answered 404 with no ledger fetch and no store operation.    *)
(***************************************************************************)
RemainingPath(pathname) ==
    LET bases == {b \in {deployedBasePath} : startsWith(pathname, b)}
        locals == {b \in {localBasePath} : startsWith(pathname, b)}
        rest(b) == SubSeq(pathname, Len(b) + 1, Len(pathname))
    IN  IF bases # {} THEN rest(deployedBasePath)
        ELSE IF locals # {} THEN rest(localBasePath)
        ELSE pathname

RouteSegments(pathname) ==
    SelectSeq(split(RemainingPath(pathname)), nonEmpty)

C13_Dispatch ==
    LET q == requests[1]
        segments == RouteSegments(q.path)
    IN  (q.pc # "idle" /\ q.method # "OPTIONS") =>
           /\ q.handler = "webhook"
                 <=> (q.method = "POST" /\ segments = <<"webhook">>)
           /\ q.handler = "get"
                 <=> (q.method = "GET" /\ Len(segments) = 2
                         /\ segments[1] = "transaction")
           /\ q.handler = "get" => q.signature = segments[2]
           /\ q.handler = "none" =>
                 /\ Done(1) /\ q.status = 404
                 /\ q.fetches = 0 /\ q.upserts = 0 /\ store = {}

\* what the router does with a method and a path: the handler and, for the
\* query handler, the signature it is given
RoutingDecision(method, pathname) ==
    LET q == serve(NewRequest(method, pathname), EmptyObject)
    IN  <<q.handler, IF q.handler = "get" THEN q.signature ELSE "">>

\* the suffixes of which the path of the request is a form (prefixed by a
\* base path, or unprefixed), a suffix being a path itself
SuffixesOf(pathname) ==
    {SubSeq(pathname, Len(b) + 1, Len(pathname)) :
        b \in {b \in BasePaths : startsWith(pathname, b)}}
      \cap {s \in {SubSeq(pathname, i, Len(pathname)) : i \in 1..Len(pathname)} :
               startsWith(s, <<"/">>)}

beginsWithBasePath(s) ==
    startsWith(s, localBasePath) \/ startsWith(s, deployedBasePath)

\* the claim as stated: the decision is the same for all three forms of
\* every suffix
C13_RouterAsStated ==
    /\ C13_Dispatch
    /\ LET q == requests[1]
       IN  (q.pc # "idle" /\ q.method # "OPTIONS") =>
              \A suffix \in SuffixesOf(q.path), base \in BasePaths :
                  RoutingDecision(q.method, base \o suffix)
                     = RoutingDecision(q.method, q.path)

\* C13 as amended: the decision is the same for all three forms of every
\* suffix that does not itself begin with a base path
C13_Router ==
    /\ C13_Dispatch
    /\ LET q == requests[1]
       IN  (q.pc # "idle" /\ q.method # "OPTIONS") =>
              \A suffix \in SuffixesOf(q.path), base \in BasePaths :
                  ~beginsWithBasePath(suffix) =>
                      RoutingDecision(q.method, base \o suffix)
                         = RoutingDecision(q.method, q.path)

\* a POST to the deployed form of /webhook reached the webhook handler, and
\* it would have under the local form and the unprefixed form
C13_Witness ==
    LET q == requests[1]
    IN  /\ q.method = "POST" /\ q.handler = "webhook" /\ q.fetches = 1
        /\ q.path = deployedBasePath \o <<"/", "webhook">>
        /\ RoutingDecision("POST", localBasePath \o <<"/", "webhook">>)
              = <<"webhook", "">>
        /\ RoutingDecision("POST", <<"/", "webhook">>) = <<"webhook", "">>

(***************************************************************************)
(* C14.  Every input validation error is answered 400 with no ledger       *)
(* fetch: a webhook body that is not JSON, a webhook body with no          *)
(* signature, and a GET to the transaction route with no signature after   *)
(* it (GET /transaction, GET /transaction/; /api/tx/ in Express).          *)
(***************************************************************************)
SignatureMissing(r) ==
    /\ requests[r].method = "GET"
    /\ IF variant = "edge"
       THEN RouteSegments(requests[r].path) = <<"transaction">>
       ELSE SelectSeq(split(requests[r].path), nonEmpty) = <<"api", "tx">>

C14_ValidationIs400 ==
    \A r \in Req :
        /\ Done(r)
        /\ \/ requests[r].handler = "webhook" /\ requests[r].signature = ""
           \/ requests[r].body = InvalidJson
           \/ SignatureMissing(r)
        => requests[r].status = 400 /\ requests[r].fetches = 0

(***************************************************************************)
(* C15.  In the serverless function an OPTIONS request to any path is      *)
(* answered 204 with the permissive CORS headers and reaches no handler,   *)
(* no ledger fetch and no store operation; and every response of the       *)
(* function carries those headers.                                         *)
(***************************************************************************)
CorsHeaders ==
    {h \in defaultHeaders :
        h[1] \in {"Access-Control-Allow-Origin", "Access-Control-Allow-Methods",
                  "Access-Control-Allow-Headers"}}

C15_PreflightAndCors ==
    \A r \in Req :
        (variant = "edge" /\ Done(r)) =>
            /\ CorsHeaders \subseteq HeadersOf(requests[r])
            /\ <<"Access-Control-Allow-Origin", "*">> \in HeadersOf(requests[r])
            /\ requests[r].method = "OPTIONS" =>
                  /\ requests[r].status = 204
                  /\ requests[r].handler = "none"
                  /\ requests[r].fetches = 0 /\ requests[r].upserts = 0

(***************************************************************************)
(* C16.  With the persistence client not initialised, the persistence      *)
(* operations return an error value and do not throw: a webhook whose      *)
(* extraction succeeded is answered 500 with the store error, never 200,   *)
(* nothing having thrown and no upsert having been called, and             *)
(* fetchTransactionFromDb yields the error message and no data.            *)
(***************************************************************************)
C16_UninitialisedClient ==
    (variant = "edge" /\ ~supabaseClient) =>
        /\ \A r \in Req :
              (EdgeWebhook(r) /\ requests[r].fetched
                  /\ ~requests[r].processedTx.isNull)
              => /\ Done(r) /\ requests[r].status = 500
                 /\ requests[r].dbError
                 /\ requests[r].thrown = ""
                 /\ requests[r].upserts = 0
        /\ \A r \in Req : EdgeWebhook(r) => requests[r].status # 200
        /\ store = {}
        /\ \A s \in Signatures :
              /\ fetchTransactionFromDb(s).error # ""
              /\ fetchTransactionFromDb(s).data = {}

C16_Witness ==
    \E r \in Req :
        /\ variant = "edge" /\ ~supabaseClient
        /\ EdgeWebhook(r) /\ requests[r].fetched
        /\ ~requests[r].processedTx.isNull
        /\ requests[r].status = 500 /\ requests[r].dbError

(***************************************************************************)
(* C17.  The two variants are functionally equivalent: given the same      *)
(* watch criteria, the same request and the same ledger outcome, once      *)
(* both have answered they have answered with the same HTTP status and     *)
(* have computed the same balance delta.                                   *)
(***************************************************************************)
SameAnswer ==
    /\ requests[1].status = requests[2].status
    /\ requests[1].processedTx.isNull = requests[2].processedTx.isNull
    /\ requests[1].processedTx.uiAmount = requests[2].processedTx.uiAmount
    /\ (requests[1].handler = "get" /\ requests[2].handler = "get")
          => requests[1].data.uiAmount = requests[2].data.uiAmount

C17_VariantsEquivalent == (Done(1) /\ Done(2)) => SameAnswer

\* the webhook payload carries its signature in shape 1 or shape 3 only: the
\* serverless function finds it and the Express server does not
OnlyServerlessShape(body) == FirstMatch(body) # expressSignature(body)

\* the store call of the serverless function failed (the Express server has
\* no store)
StoreFailed == requests[1].dbError

\* C17 as amended: the variants agree except for a payload of shape 1 or 3,
\* the native selector "SOL", unset criteria with a ledger call that throws,
\* and a failed store call
C17_VariantsAgreeWhen ==
    (/\ Done(1) /\ Done(2)
     /\ requests[1].handler = "webhook" => ~OnlyServerlessShape(requests[1].body)
     /\ toUpperCase(USDC_MINT) # <<"S", "O", "L">>
     /\ criteriaSet \/ requests[2].thrown # "ledger"
     /\ ~StoreFailed)
    => SameAnswer

\* both variants answered 200 to the same webhook and computed a delta that
\* is not zero
C17_Witness ==
    /\ requests[1].handler = "webhook" /\ requests[2].handler = "webhook"
    /\ requests[1].status = 200 /\ requests[2].status = 200
    /\ requests[1].processedTx.uiAmount = requests[2].processedTx.uiAmount
    /\ requests[1].processedTx.uiAmount # Zero

(***************************************************************************)
(* C18.  Token mode.  The pre amount is decided by the pre-balance list    *)
(* alone and the post amount by the post-balance list alone: the parsed    *)
(* amount of the first entry whose mint is the selector and whose owner    *)
(* is the watched address, or 0 when the list has no such entry (or the    *)
(* record has no such list).  So an entry on one side only leaves the      *)
(* other side 0, and no entry on either side gives pre = post = delta = 0  *)
(* in a result that is a success: the query answers 200 with it, the       *)
(* webhook goes on to store it.                                            *)
(***************************************************************************)
TokenMode == criteriaSet /\ toUpperCase(USDC_MINT) # <<"S", "O", "L">>

\* the entries of a list that match the watch criteria, in list order
Matching(present, list) ==
    IF present
    THEN SelectSeq(list, LAMBDA b : b.mint = USDC_MINT /\ b.owner = SOLANA_ADDR)
    ELSE <<>>

\* 0 for no entry; an entry without an amount string counts as 0
AmountOf(entries) ==
    IF entries = <<>> \/ entries[1].uiAmountString = <<>> THEN Zero
    ELSE parseFloat(entries[1].uiAmountString)

C18_TokenMode ==
    LET q    == requests[1]
        pre  == Matching(q.tx.hasPreTokenBalances, q.tx.preTokenBalances)
        post == Matching(q.tx.hasPostTokenBalances, q.tx.postTokenBalances)
    IN  (TokenMode /\ q.fetched) =>
           /\ ~q.processedTx.isNull
           /\ q.processedTx.preAmount = AmountOf(pre)
           /\ q.processedTx.postAmount = AmountOf(post)
           /\ pre = <<>> => q.processedTx.preAmount = Zero
           /\ post = <<>> => q.processedTx.postAmount = Zero
           /\ (pre = <<>> /\ post = <<>>) => q.processedTx.uiAmount = Zero
           /\ q.handler = "get" =>
                 q.status = 200 /\ q.data = q.processedTx
           /\ (q.handler = "webhook" /\ variant = "express") => q.status = 200
           /\ (q.handler = "webhook" /\ variant = "edge") =>
                 /\ q.upserts = 1
                 /\ q.status \in {0, 200, 500}
                 /\ q.status = 500 => q.dbError

\* a record whose lists hold entries, none of them of the watched owner and
\* mint: the query is answered 200 with pre = post = delta = 0
C18_Witness ==
    LET q == requests[1]
    IN  /\ TokenMode /\ q.fetched /\ q.handler = "get"
        /\ q.tx.preTokenBalances # <<>> /\ q.tx.postTokenBalances # <<>>
        /\ Matching(TRUE, q.tx.preTokenBalances) = <<>>
        /\ Matching(TRUE, q.tx.postTokenBalances) = <<>>
        /\ q.status = 200 /\ ~q.data.isNull
        /\ q.data.preAmount = Zero /\ q.data.postAmount = Zero
        /\ q.data.uiAmount = Zero

(***************************************************************************)
(* C19.  End to end: a webhook {signature: "S1"} for which the ledger      *)
(* returns the record in which the watched owner holds 10 of the watched   *)
(* mint before and 10.01 after, the store accepting the row, is answered   *)
(* 200 and the delta it reports is the number 0.01.                        *)
(***************************************************************************)
C19_DeltaIsOneCent ==
    \A r \in Req :
        (/\ EdgeWebhook(r) /\ TokenMode
         /\ requests[r].body = DirectBody("S1")
         /\ requests[r].fetched /\ requests[r].tx = TxTransfer
         /\ Done(r) /\ ~requests[r].dbError)
        => /\ requests[r].status = 200
           /\ requests[r].data.preAmount = parseFloat(<<"1", "0">>)
           /\ requests[r].data.postAmount
                 = parseFloat(<<"1", "0", ".", "0", "1">>)
           /\ requests[r].data.uiAmount = parseFloat(<<"0", ".", "0", "1">>)

(***************************************************************************)
(* C20.  The query by signature never modifies the store: no step of a     *)
(* GET request, whatever it is answered, changes the store.                *)
(***************************************************************************)
C20_QueryLeavesStore ==
    [][\A r \in Req :
          (requests'[r] # requests[r] /\ requests'[r].method = "GET")
          => store' = store /\ requests'[r].upserts = 0]_vars

\* a query answered 200 from a live fetch, its signature still without a
\* row in the store
C20_Witness ==
    \E r \in Req :
        /\ requests[r].method = "GET" /\ requests[r].handler = "get"
        /\ requests[r].status = 200 /\ ~requests[r].data.isNull
        /\ RowsOf(requests[r].signature) = {}

(***************************************************************************)
(* The external contract of the ledger client and of the store client:     *)
(* every call eventually resolves or errors, so a request that awaits one  *)
(* is not left waiting for ever.                                           *)
(***************************************************************************)
Resolving ==
    \A r \in Req :
        /\ WF_vars(EdgeLedgerReturn(r))
        /\ WF_vars(ExpressLedgerReturn(r))
        /\ WF_vars(UpsertReturn(r))

SpecResolving == Init /\ [][Next]_vars /\ Resolving

\* the request was received
Accepted(r) == requests[r].pc # "idle"

\* every accepted request is eventually answered
C21_EventuallyAnswered == \A r \in Req : Accepted(r) ~> Done(r)

\* a request is answered once at most, and it is done exactly when it has
\* its one response
C21_AtMostOneResponse ==
    \A r \in Req :
        /\ requests[r].responses <= 1
        /\ Done(r) <=> requests[r].responses = 1

(***************************************************************************)
(* C21.  When every ledger fetch and every store call eventually resolves  *)
(* or errors, every accepted request (webhook, query, OPTIONS, unmatched   *)
(* route) is eventually answered, it is answered exactly once, and the     *)
(* answer is one its handler path gave: no handler path ends without       *)
(* responding or responds twice.                                           *)
(* The OPTIONS path of the serverless function ends in an exception and    *)
(* not in a response: TLC refutes this.                                    *)
(***************************************************************************)
C21_ExactlyOneResponse ==
    /\ \A r \in Req : Accepted(r) ~> Done(r)
    /\ [](\A r \in Req :
             /\ requests[r].responses <= 1
             /\ Done(r) <=> requests[r].responses = 1
             /\ Done(r) => ~requests[r].escaped)

(***************************************************************************)
(* C22.  Fail closed on missing configuration: when the watched address or *)
(* the asset selector is unset, every webhook in which the handler found a *)
(* signature and every query is answered 404, whatever the ledger call     *)
(* does (a rejected call included); nothing was thrown while the request   *)
(* was handled, no result is echoed and no store write was made.           *)
(* The Express server calls the ledger before it looks at the              *)
(* configuration, and answers 500 when that call rejects: TLC refutes      *)
(* this.                                                                   *)
(***************************************************************************)
C22_FailClosed ==
    \A r \in Req :
        (/\ ~criteriaSet
         /\ requests[r].handler \in {"webhook", "get"}
         /\ requests[r].signature # ""
         /\ Done(r))
        => /\ requests[r].status = 404
           /\ requests[r].thrown = ""
           /\ requests[r].processedTx.isNull
           /\ requests[r].data = NullResult
           /\ requests[r].upserts = 0
           /\ store = {}

(***************************************************************************)
(* C23.  Token mode: a matching balance entry whose amount string is       *)
(* absent, empty or not a decimal number contributes the amount 0, so no   *)
(* extraction result has a preAmount, postAmount or delta that is NaN, and *)
(* nothing is thrown because of such an entry.                             *)
(* parseFloat of a string that does not begin with a number is NaN, and    *)
(* the code takes it as the amount: TLC refutes this.                      *)
(***************************************************************************)
\* s is a decimal number: digits, optionally followed by a point and digits
DecimalString(s) ==
    LET intEnd  == DigitRunEnd(s, 1)
        hasPt   == intEnd <= Len(s) /\ s[intEnd] = "."
        fracEnd == IF hasPt THEN DigitRunEnd(s, intEnd + 1) ELSE intEnd
    IN  intEnd > 1 /\ fracEnd = Len(s) + 1 /\ (hasPt => fracEnd > intEnd + 1)

\* the amount the claim gives to the first matching entry
AmountOrZero(entries) ==
    IF entries = <<>> THEN Zero
    ELSE IF ~DecimalString(entries[1].uiAmountString) THEN Zero
    ELSE parseFloat(entries[1].uiAmountString)

C23_MalformedIsZero ==
    \A r \in Req :
        LET q    == requests[r]
            p    == q.processedTx
            pre  == Matching(q.tx.hasPreTokenBalances, q.tx.preTokenBalances)
            post == Matching(q.tx.hasPostTokenBalances, q.tx.postTokenBalances)
        IN  (TokenMode /\ q.fetched /\ q.tx.hasMeta) =>
               /\ ~p.isNull
               /\ p.preAmount = AmountOrZero(pre)
               /\ p.postAmount = AmountOrZero(post)
               /\ ~IsNaN(p.preAmount) /\ ~IsNaN(p.postAmount)
               /\ ~IsNaN(p.uiAmount)
               /\ q.thrown = ""

(***************************************************************************)
(* The native branch over many ledger records: one request to the          *)
(* serverless function, a query or a webhook of shape 2, the selector      *)
(* "SOL" in some spelling; the ledger call returns a record with at most   *)
(* MaxAccounts account keys, with any native balance lists of at most      *)
(* MaxAccounts entries, and with or without token balance lists that hold  *)
(* an entry of the watched owner whose mint is the selector.               *)
(***************************************************************************)
MaxAccounts == 2

NativeSelectors == {<<"s", "o", "l">>, <<"S", "O", "L">>, <<"S", "o", "l">>}

NativeBalances == {1000000000, 1500000000, 2000000000}

RECURSIVE SeqsUpTo(_, _)
\* the sequences over S of length at most n
SeqsUpTo(S, n) ==
    IF n = 0 THEN {<<>>}
    ELSE LET shorter == SeqsUpTo(S, n - 1)
         IN  shorter \cup {Append(s, x) : s \in shorter, x \in S}

NativeKeyLists == SeqsUpTo({WatchedAddr, OtherAddr}, MaxAccounts)

NativeBalanceLists == SeqsUpTo(NativeBalances, MaxAccounts)

NativeRecords(mint) ==
    {ParsedTx(TRUE, keys, preB, postB,
              tokens, IF tokens
                      THEN <<TokenBalance(mint, WatchedAddr, <<"5">>)>>
                      ELSE <<>>,
              tokens, IF tokens
                      THEN <<TokenBalance(mint, WatchedAddr, <<"7">>)>>
                      ELSE <<>>,
              1700000000) :
        keys \in NativeKeyLists, preB \in NativeBalanceLists,
        postB \in NativeBalanceLists, tokens \in BOOLEAN}

NativeInit ==
    /\ variant = "edge"
    /\ USDC_MINT \in NativeSelectors
    /\ SOLANA_ADDR = WatchedAddr
    /\ supabaseClient = TRUE
    /\ store = {}
    /\ lastUpsert = [s \in Signatures |-> {}]
    /\ requests = [r \in Req |-> Idle]

NativeReceive ==
    /\ requests[1].pc = "idle"
    /\ \/ requests' = [requests EXCEPT ![1] =
              serve(NewRequest("POST", <<"/", "webhook">>), EventBody("S1"))]
       \/ requests' = [requests EXCEPT ![1] =
              serve(NewRequest("GET", <<"/", "transaction", "/", "S1">>),
                    NoBody)]
    /\ UNCHANGED <<variant, USDC_MINT, SOLANA_ADDR, supabaseClient, store,
                   lastUpsert>>

\* getParsedTransaction resolves with a record
NativeLedgerReturn ==
    /\ requests[1].pc = "fetch"
    /\ \E tx \in NativeRecords(USDC_MINT) :
         LET q  == requests[1]
             q1 == [q EXCEPT !.fetched = TRUE, !.tx = tx]
             result == fetchAndProcessSolanaTransaction(tx, q.signature)
         IN  requests' = [requests EXCEPT ![1] =
                 IF q.handler = "webhook" THEN webhookAfterFetch(q1, result)
                 ELSE getAfterFetch(q1, result)]
    /\ UNCHANGED <<variant, USDC_MINT, SOLANA_ADDR, supabaseClient, store,
                   lastUpsert>>

NativeNext == NativeReceive \/ NativeLedgerReturn \/ UpsertReturn(1)

SpecNative == NativeInit /\ [][NativeNext]_vars

(***************************************************************************)
(* C24.  Native-coin mode of the serverless function (the selector is      *)
(* "SOL" in any case).  When the watched address is among the account keys *)
(* of the record, at index i first, preAmount and postAmount are the pre   *)
(* and post native balances at index i in coins of 10^9 units, exactly     *)
(* (10^9 units are the number 1), and 0 for a balance list without an      *)
(* entry at i.  When it is not among the keys, pre = post = delta = 0.  In *)
(* both cases the result is a success: the query answers 200 with it, the  *)
(* webhook goes on to store it.  The token balance lists play no part.     *)
(***************************************************************************)
\* the binary64 numbers 1, 1.5 and 2
One == [nan |-> FALSE, neg |-> FALSE, m |-> <<1>>, e |-> 0]

OneAndAHalf == [nan |-> FALSE, neg |-> FALSE, m |-> <<3>>, e |-> 0 - 1]

Two == [nan |-> FALSE, neg |-> FALSE, m |-> <<1>>, e |-> 1]

\* the balances of the records, in coins
Coins(units) ==
    CASE units = 1000000000 -> One
      [] units = 1500000000 -> OneAndAHalf
      [] units = 2000000000 -> Two

\* the coins of the entry of the balance list at index i, 0 without one
CoinsAt(balances, i) ==
    IF i <= Len(balances) THEN Coins(balances[i]) ELSE Zero

\* the indexes at which the watched address is among the account keys
WatchedAt(keys) == {i \in 1..Len(keys) : keys[i] = SOLANA_ADDR}

C24_NativeMode ==
    LET q  == requests[1]
        p  == q.processedTx
        at == WatchedAt(q.tx.accountKeys)
    IN  (USDC_MINT \in NativeSelectors /\ q.fetched) =>
           /\ ~p.isNull
           /\ \A i \in at :
                 (\A j \in at : i <= j) =>
                     /\ p.preAmount = CoinsAt(q.tx.preBalances, i)
                     /\ p.postAmount = CoinsAt(q.tx.postBalances, i)
           /\ at = {} => /\ p.preAmount = Zero /\ p.postAmount = Zero
                         /\ p.uiAmount = Zero
           /\ q.handler = "get" => q.status = 200 /\ q.data = p
           /\ q.handler = "webhook" =>
                 /\ q.upserts = 1
                 /\ q.status \in {0, 200, 500}
                 /\ q.status = 200 => q.data = p
                 /\ q.status = 500 => q.dbError

\* the watched address is the second account, its balance goes from 10^9
\* to 2 * 10^9 units, the record lists a token balance of the watched owner
\* under the selector: the query answers 200 with pre 1, post 2, delta 1
C24_Witness ==
    LET q == requests[1]
    IN  /\ USDC_MINT = <<"S", "o", "l">> /\ q.fetched /\ q.handler = "get"
        /\ q.tx.accountKeys = <<OtherAddr, WatchedAddr>>
        /\ q.tx.preBalances = <<1500000000, 1000000000>>
        /\ q.tx.postBalances = <<1500000000, 2000000000>>
        /\ q.tx.hasPostTokenBalances
        /\ q.status = 200
        /\ q.data.preAmount = One /\ q.data.postAmount = Two
        /\ q.data.uiAmount = One

\* the watched address is not among the account keys: the webhook stores
\* the row of zeros and answers 200
C24_WitnessNotAmongKeys ==
    LET q == requests[1]
    IN  /\ q.fetched /\ q.handler = "webhook"
        /\ q.tx.accountKeys = <<OtherAddr>>
        /\ q.status = 200 /\ q.data.uiAmount = Zero
        /\ \E x \in store : x.pre_amount = Zero /\ x.post_amount = Zero

=============================================================================
